---- MODULE Spec2Model ----
(***************************************************************************)
(* A model of gitauto's agent tool-calling loop.                           *)
(*                                                                         *)
(*   Spec      one run driven by chat_with_agent turns                     *)
(*             (src/services/openai/commit_changes.py)                     *)
(*   SpecPoll  the polling loop wait_on_run / call_function                *)
(*             (src/services/openai/openai_agent.py)                       *)
(***************************************************************************)
EXTENDS Integers, Sequences, FiniteSets, TLC

VARIABLES
    messages,        \* the caller's message list, mutated in place by a turn
    previous_calls,  \* the caller's dedup list, mutated in place by a turn
    executed,        \* every capability invocation of the run, in order
    turn,            \* number of chat_with_agent calls made so far
    run_state,       \* "running" | "aborted" (a turn raised)
    last,            \* the latest chat_with_agent call: its mode, the answer
                     \* it got, what it returned, its effects in order, and
                     \* the lists as they were before it
    run_status,      \* wait_on_run: run.status
    wpc,             \* wait_on_run: "loop" | "returned" | "raised"
    polls,           \* wait_on_run: loop iterations completed or aborted
    called,          \* wait_on_run: every capability invocation, in order
    outputs,         \* wait_on_run: tool outputs submitted, in order
    wlast,           \* wait_on_run: what the latest iteration did, and the
                     \* logs as they were before it
    hpc,             \* handle_gitauto: the step each invocation is at
    hlocal,          \* handle_gitauto: each invocation's diffs, loop index
                     \* and the side effects it made, in order
    progress_entry,  \* the run-registry entry of the issue
    counts,          \* the installation's request and completed counts
    remote,          \* the branch, commits and pull request each
                     \* invocation made on the repository
    histories,       \* two runs: the message-list objects that exist
    dedup_lists,     \* two runs: the previous_calls list objects that exist
    runs,            \* two runs: each run's references and the inputs of
                     \* its turns so far
    turn_order,      \* two runs: which run took each turn
    page,            \* get_pull_request_files: the page to request next
    changes,         \* get_pull_request_files: the entries collected
    exchanges,       \* get_pull_request_files: the page numbers requested
                     \* and what the server answered, in order
    files_result     \* get_pull_request_files: whether it returned, and what

chat_vars == <<messages, previous_calls, executed, turn, run_state, last>>
poll_vars == <<run_status, wpc, polls, called, outputs, wlast>>
gitauto_vars == <<hpc, hlocal, progress_entry, counts, remote>>
runs_vars == <<histories, dedup_lists, runs, turn_order>>
pulls_vars == <<page, changes, exchanges, files_result>>
vars == <<messages, previous_calls, executed, turn, run_state, last,
          run_status, wpc, polls, called, outputs, wlast,
          hpc, hlocal, progress_entry, counts, remote,
          histories, dedup_lists, runs, turn_order,
          page, changes, exchanges, files_result>>

(***************************************************************************)
(* Bounds of the model.                                                    *)
(***************************************************************************)
MaxTurns == 3

Range(s) == {s[i] : i \in 1..Len(s)}

IsPrefix(s, t) == Len(s) <= Len(t) /\ SubSeq(t, 1, Len(s)) = s

(***************************************************************************)
(* JSON argument texts.  A text is a sequence of tokens; a token is a      *)
(* punctuation mark or one "key": "value" member.                          *)
(***************************************************************************)
LBRACE == <<"{">>
RBRACE == <<"}">>
COMMA == <<",">>
SPACE == <<" ">>
Member(k, v) == <<k, v>>

IsMember(tok) == Len(tok) = 2

ArgTexts ==
    { <<LBRACE, Member("file_path", "a.py"), RBRACE>>,
      <<LBRACE, SPACE, Member("file_path", "a.py"), SPACE, RBRACE>>,
      <<LBRACE, Member("file_path", "b.py"), RBRACE>>,
      <<LBRACE, Member("file_path", "a.py")>> }

\* json.loads: whitespace between tokens is insignificant, the text must be
\* one object, and of two members with the same key the last one wins.  The
\* result is [ok |-> FALSE] for a JSONDecodeError.
StripSpace(text) == SelectSeq(text, LAMBDA tok : tok # SPACE)

WellFormedObject(s) ==
    /\ Len(s) >= 2
    /\ s[1] = LBRACE
    /\ s[Len(s)] = RBRACE
    /\ \/ Len(s) = 2
       \/ /\ Len(s) % 2 = 1
          /\ \A i \in 2..(Len(s) - 1) :
                IF i % 2 = 0 THEN IsMember(s[i]) ELSE s[i] = COMMA

json_loads(text) ==
    LET s == StripSpace(text)
        idx == {i \in 1..Len(s) : IsMember(s[i])}
        keys == {s[i][1] : i \in idx}
        lastOf(k) == CHOOSE i \in idx :
                        /\ s[i][1] = k
                        /\ \A j \in idx : s[j][1] = k => j <= i
    IN  IF WellFormedObject(s)
        THEN [ok |-> TRUE, value |-> [k \in keys |-> s[lastOf(k)][2]]]
        ELSE [ok |-> FALSE, value |-> [k \in {} |-> ""]]

(***************************************************************************)
(* chat_with_agent: one turn.                                              *)
(***************************************************************************)
Modes == {"comment", "commit", "explore", "get"}

\* The system instruction and the tool list a mode selects.
SystemInstruction(mode) ==
    CASE mode = "comment" -> "SYSTEM_INSTRUCTION_TO_UPDATE_COMMENT"
      [] mode = "commit"  -> "SYSTEM_INSTRUCTION_TO_COMMIT_CHANGES"
      [] mode = "explore" -> "SYSTEM_INSTRUCTION_TO_EXPLORE_REPO"
      [] mode = "get"     -> "SYSTEM_INSTRUCTION_TO_EXPLORE_REPO"

ToolsOffered(mode) ==
    CASE mode = "comment" -> "TOOLS_TO_UPDATE_COMMENT"
      [] mode = "commit"  -> "TOOLS_TO_COMMIT_CHANGES"
      [] mode = "explore" -> "TOOLS_TO_EXPLORE_REPO"
      [] mode = "get"     -> "TOOLS_TO_GET_FILE"

\* The registry chat_with_agent dispatches on (a dict keyed by tool name).
tools_to_call ==
    {"get_remote_file_content", "commit_changes_to_remote_branch",
     "update_comment"}

\* The names of the tools in the list a mode offers to the model.
ModeTools(mode) ==
    CASE mode = "comment" -> {"update_comment"}
      [] mode = "commit"  -> {"commit_changes_to_remote_branch"}
      [] mode = "explore" -> {"get_remote_file_content"}
      [] mode = "get"     -> {"get_remote_file_content"}

\* Names the model may put in a tool request: two registered ones and one
\* that is not registered.
RequestableNames ==
    {"get_remote_file_content", "commit_changes_to_remote_branch",
     "unregistered_tool"}

CallIds == {"call_1"}

\* A tool request of the provider's response.
ToolCall(id, name, arguments) == [id |-> id, name |-> name, arguments |-> arguments]

\* A further request a response may carry after its first one.
ExtraToolCall ==
    ToolCall("call_2",
             "commit_changes_to_remote_branch",
             <<LBRACE, Member("file_path", "b.py"), SPACE, RBRACE>>)

\* The tool request lists a response may carry: none, one request, or two
\* requests of which the first has the plain argument text.
ToolCallLists ==
    {<<>>} \cup
    { <<ToolCall(id, name, text)>> :
        id \in CallIds, name \in RequestableNames, text \in ArgTexts } \cup
    { <<ToolCall(id, name, <<LBRACE, Member("file_path", "a.py"), RBRACE>>),
        ExtraToolCall>> :
        id \in CallIds, name \in RequestableNames }

\* What client.chat.completions.create does: it raises, or it returns a
\* completion whose first choice carries a list of tool requests, possibly
\* empty (None and [] are both falsy at "if not tool_calls").
Completions ==
    {[ok |-> FALSE, tool_calls |-> <<>>]} \cup
    {[ok |-> TRUE, tool_calls |-> tcs] : tcs \in ToolCallLists}

\* What a capability does when invoked: it returns a result or raises.
ToolResults == {"tool result"}
Capabilities ==
    {[ok |-> FALSE, result |-> "error"]} \cup
    {[ok |-> TRUE, result |-> r] : r \in ToolResults}

\* Messages.  Every message carries every field; a field a role does not
\* use is empty.
UserMessage(text) ==
    [role |-> "user", content |-> <<text>>, tool_calls |-> <<>>,
     tool_call_id |-> "", name |-> ""]

\* choice.message of a completion
AssistantMessage(tool_calls) ==
    [role |-> "assistant", content |-> <<>>, tool_calls |-> tool_calls,
     tool_call_id |-> "", name |-> ""]

ToolMessage(tool_call_id, tool_name, tool_result) ==
    [role |-> "tool", content |-> tool_result, tool_calls |-> <<>>,
     tool_call_id |-> tool_call_id, name |-> tool_name]

\* A variant that reads the last request of the list instead of the first.
FirstToolCall_Last(tool_calls) == tool_calls[Len(tool_calls)]

\* "Handle multiple tool calls": only tool_calls[0] is read.
FirstToolCall(tool_calls) == tool_calls[1]

CurrentCall(tool_name, tool_args) == [function |-> tool_name, args |-> tool_args]

\* A variant that compares with the most recent record only.
InPrevious_LastOnly(current_call, calls) ==
    calls # <<>> /\ current_call = calls[Len(calls)]

\* "current_call in previous_calls": equality of the dicts.
InPrevious(current_call, calls) == current_call \in Range(calls)

\* A variant that sends msg alone, without the guidance.
DuplicateResult_NoGuidance(tool_name) ==
    << "The function '", tool_name,
       "' was called with the same arguments as before" >>

\* The tool result of a rejected duplicate: the f-string msg followed by the
\* fixed guidance.
DuplicateResult(tool_name) ==
    << "The function '", tool_name,
       "' was called with the same arguments as before",
       ", which is non-sense. You must open the file path in your tool args and update your diff content accordingly." >>

\* str(tool_result) of a capability's return value
ExecutedResult(capability) == <<capability.result>>

\* A variant that forgets to record the executed call.
RecordCall_Skip(calls, current_call) == calls

\* previous_calls.append(current_call), after the capability returned
RecordCall(calls, current_call) == Append(calls, current_call)

\* A variant that records the call although it was rejected.
CallsAfterDuplicate_Append(calls, current_call) == Append(calls, current_call)

\* The duplicate branch leaves previous_calls alone.
CallsAfterDuplicate(calls, current_call) == calls

\* A variant that records the call before it invokes the capability.
CallsAfterFailure_Recorded(calls, current_call) == Append(calls, current_call)

\* A capability that raises leaves before previous_calls.append is reached.
CallsAfterFailure(calls, current_call) == calls

\* A variant that dispatches with a default instead of failing.
IsRegistered_Always(tool_name, registry) == TRUE

\* registry[tool_name]: a KeyError unless the name is a key.
IsRegistered(tool_name, registry) == tool_name \in registry

\* A variant that sets is_done after the if/else instead of inside it.
IsDoneAfterDuplicate_True == TRUE

IsDoneAfterDuplicate == FALSE

IsDoneAfterExecution == TRUE

\* A variant that appends the tool result before the request.
AppendToolExchange_Reversed(msgs, choice_message, tool_message) ==
    Append(Append(msgs, tool_message), choice_message)

\* A variant that appends to all_messages, the list that starts with the
\* system message, and hands that list back.
AppendToolExchange_AllMessages(msgs, choice_message, tool_message) ==
    <<[role |-> "system", content |-> <<"system instruction">>,
       tool_calls |-> <<>>, tool_call_id |-> "", name |-> ""]>>
    \o Append(Append(msgs, choice_message), tool_message)

\* messages.append(choice.message); messages.append({"role": "tool", ...})
AppendToolExchange(msgs, choice_message, tool_message) ==
    Append(Append(msgs, choice_message), tool_message)

\* A variant that appends the assistant message before the early return.
MessagesWithoutToolCall_Append(msgs, choice_message) ==
    Append(msgs, choice_message)

\* The early return of a turn without tool request hands back messages as is.
MessagesWithoutToolCall(msgs, choice_message) == msgs

NoValue == <<>>
Some(x) == <<x>>

Raised(msgs, calls, tool_calls, events, invoked, error) ==
    [outcome |-> "raised", error |-> error, messages |-> msgs,
     previous_calls |-> calls, tool_calls |-> tool_calls,
     tool_name |-> NoValue, tool_args |-> NoValue, is_done |-> FALSE,
     events |-> events, invoked |-> invoked]

Returned(msgs, calls, tool_calls, tool_name, tool_args, is_done, events, invoked) ==
    [outcome |-> "returned", error |-> "", messages |-> msgs,
     previous_calls |-> calls, tool_calls |-> tool_calls,
     tool_name |-> tool_name, tool_args |-> tool_args, is_done |-> is_done,
     events |-> events, invoked |-> invoked]

\* One call of chat_with_agent on the caller's lists msgs and calls, given
\* what the provider answers and what the capability does if it is invoked.
\* The result holds the lists as the call leaves them, the returned values,
\* the effects in the order the code performs them, and the capability
\* invocations made.  The token counts are computed from the arguments and
\* the answer and change nothing; they are left out.
chat_with_agent(msgs, calls, mode, completion, capability) ==
    LET tool_calls == completion.tool_calls
        choice_message == AssistantMessage(tool_calls)
        tc == FirstToolCall(tool_calls)
        parsed == json_loads(tc.arguments)
        current_call == CurrentCall(tc.name, parsed.value)
    IN  IF ~completion.ok
        THEN Raised(msgs, calls, <<>>, <<"complete">>, <<>>, "provider")
        ELSE IF tool_calls = <<>>
        THEN Returned(MessagesWithoutToolCall(msgs, choice_message), calls,
                      tool_calls, NoValue, NoValue, FALSE,
                      <<"complete">>, <<>>)
        ELSE IF ~parsed.ok
        THEN Raised(msgs, calls, tool_calls, <<"complete", "parse">>, <<>>,
                    "arguments")
        ELSE IF InPrevious(current_call, calls)
        THEN Returned(
                AppendToolExchange(msgs, choice_message,
                    ToolMessage(tc.id, tc.name, DuplicateResult(tc.name))),
                CallsAfterDuplicate(calls, current_call), tool_calls, Some(tc.name), Some(parsed.value),
                IsDoneAfterDuplicate,
                <<"complete", "parse", "reject", "append_request", "append_result">>,
                <<>>)
        ELSE IF ~IsRegistered(tc.name, tools_to_call)
        THEN Raised(msgs, calls, tool_calls, <<"complete", "parse", "lookup">>,
                    <<>>, "unknown tool")
        ELSE IF ~capability.ok
        THEN Raised(msgs, CallsAfterFailure(calls, current_call), tool_calls,
                    <<"complete", "parse", "lookup", "invoke">>,
                    <<current_call>>, "capability")
        ELSE Returned(
                AppendToolExchange(msgs, choice_message,
                    ToolMessage(tc.id, tc.name, ExecutedResult(capability))),
                RecordCall(calls, current_call),
                tool_calls, Some(tc.name), Some(parsed.value),
                IsDoneAfterExecution,
                <<"complete", "parse", "lookup", "invoke", "record",
                  "append_request", "append_result">>,
                <<current_call>>)

(***************************************************************************)
(* A run: turns in strict sequence on one message list and one dedup list. *)
(***************************************************************************)
NoTurn ==
    [mode |-> "", outcome |-> "none", error |-> "", tool_calls |-> <<>>,
     tool_name |-> NoValue, tool_args |-> NoValue, is_done |-> FALSE,
     events |-> <<>>,
     before |-> [messages |-> <<>>, previous_calls |-> <<>>, executed |-> <<>>]]

InitChat ==
    /\ messages = <<UserMessage("task")>>
    /\ previous_calls = <<>>
    /\ executed = <<>>
    /\ turn = 0
    /\ run_state = "running"
    /\ last = NoTurn

\* The capability's behaviour matters only to a turn that invokes it.
CapabilitiesFor(calls, completion) ==
    LET returning == CHOOSE cap \in Capabilities : cap.ok
    IN  IF chat_with_agent(<<>>, calls, "get", completion, returning).invoked # <<>>
        THEN Capabilities
        ELSE {returning}

\* The driver takes another turn only while no turn has raised.
DriverContinues == run_state = "running"

ChatTurn ==
    /\ DriverContinues
    /\ turn < MaxTurns
    /\ \E mode \in Modes, completion \in Completions :
        \E capability \in CapabilitiesFor(previous_calls, completion) :
          LET r == chat_with_agent(messages, previous_calls, mode, completion,
                                   capability)
          IN  /\ messages' = r.messages
              /\ previous_calls' = r.previous_calls
              /\ executed' = executed \o r.invoked
              /\ turn' = turn + 1
              /\ run_state' = IF r.outcome = "raised" THEN "aborted" ELSE "running"
              /\ last' = [mode |-> mode, outcome |-> r.outcome, error |-> r.error,
                          tool_calls |-> r.tool_calls,
                          tool_name |-> r.tool_name, tool_args |-> r.tool_args,
                          is_done |-> r.is_done, events |-> r.events,
                          before |-> [messages |-> messages,
                                      previous_calls |-> previous_calls,
                                      executed |-> executed]]
    /\ UNCHANGED <<poll_vars, gitauto_vars, runs_vars, pulls_vars>>

(***************************************************************************)
(* wait_on_run / call_function: the polling loop.                          *)
(***************************************************************************)
MaxPolls == 21
MaxCalled == 2

\* The turn ceiling of the run loop that the specification document
\* configures (20 in its example).
TurnCeiling == 20

OPENAI_FINAL_STATUSES == {"cancelled", "completed", "expired", "failed"}

RunStatuses ==
    {"queued", "in_progress", "requires_action"} \cup OPENAI_FINAL_STATUSES

\* The registry call_function dispatches on.
functions ==
    {"get_remote_file_content", "commit_multiple_changes_to_remote_branch",
     "why_modifying_diffs"}

\* run.required_action of a retrieved run: None, or the pending tool calls.
PendingToolCalls ==
    { <<ToolCall("call_1", name, text)>> \o rest :
        name \in {"get_remote_file_content", "unregistered_tool"},
        text \in { <<LBRACE, Member("file_path", "a.py"), RBRACE>>,
                   <<LBRACE, Member("file_path", "a.py")>> },
        rest \in {<<>>, <<ExtraToolCall>>} }

RequiredActions == {NoValue} \cup {Some(tcs) : tcs \in PendingToolCalls}

\* What client.beta.threads.runs.retrieve answers: it raises, or it returns
\* the run with its status and, when it requires action, the pending calls.
RetrievedRuns ==
    {[ok |-> FALSE, status |-> "", required_action |-> NoValue]} \cup
    {[ok |-> TRUE, status |-> st, required_action |-> NoValue] :
        st \in RunStatuses \ {"requires_action"}} \cup
    {[ok |-> TRUE, status |-> "requires_action", required_action |-> ra] :
        ra \in RequiredActions}

\* What submit_tool_outputs answers: it raises, or it returns the run.
SubmittedRuns ==
    {[ok |-> FALSE, status |-> ""]} \cup
    {[ok |-> TRUE, status |-> st] : st \in {"queued", "in_progress", "completed"}}

\* args["token"] = token
WithToken(args, token) ==
    [k \in (DOMAIN args) \cup {"token"} |-> IF k = "token" THEN token ELSE args[k]]

\* json.dumps of a capability's result
json_dumps(result) == <<"\"", result, "\"">>

\* call_function: the first pending tool call is looked up in funcs and
\* invoked with its parsed arguments and the token.  Any failure leaves as
\* an exception: [ok |-> FALSE].  invoked lists the capability invocations.
call_function(run, funcs, token, capability) ==
    LET tool_call == FirstToolCall(run.required_action[1])
        parsed == json_loads(tool_call.arguments)
        args == WithToken(parsed.value, token)
        failed(invoked, error) ==
            [ok |-> FALSE, tool_call_id |-> "", func_res |-> "",
             invoked |-> invoked, error |-> error]
    IN  IF run.required_action = NoValue
        THEN failed(<<>>, "No tool call in the run.")
        ELSE IF ~parsed.ok
        THEN failed(<<>>, "arguments")
        ELSE IF ~IsRegistered(tool_call.name, funcs)
        THEN failed(<<>>, "Function not found")
        ELSE IF ~capability.ok
        THEN failed(<<CurrentCall(tool_call.name, args)>>, "capability")
        ELSE [ok |-> TRUE, tool_call_id |-> tool_call.id,
              func_res |-> capability.result,
              invoked |-> <<CurrentCall(tool_call.name, args)>>, error |-> ""]

ToolOutput(tool_call_id, func_res) ==
    [tool_call_id |-> tool_call_id, output |-> json_dumps(func_res)]

\* A variant that answers every pending call with the one result.
tool_outputs_AllPending(pending, res) ==
    [i \in 1..Len(pending) |-> ToolOutput(pending[i].id, res.func_res)]

\* tool_outputs=[{"tool_call_id": tool_call.id, "output": ...}]
tool_outputs(pending, res) == <<ToolOutput(res.tool_call_id, res.func_res)>>

\* A variant that tests for "completed" alone.
LoopContinues_UntilCompleted(status) == status # "completed"

\* The loop test of wait_on_run.
LoopContinues(status) == status \notin OPENAI_FINAL_STATUSES

\* One iteration of the loop body: retrieve, then, if the run requires
\* action, call_function and submit_tool_outputs, then sleep.  The result
\* holds the status the iteration ends with, whether it raised, and the
\* invocations and submissions it made.
wait_iteration(retrieved, capability, submitted) ==
    LET res == call_function(retrieved, functions, "token", capability)
        done(status, raised, invoked, sent, events) ==
            [status |-> status, raised |-> raised, invoked |-> invoked,
             submitted |-> sent, events |-> events,
             retrieved |-> retrieved.status,
             required_action |-> retrieved.required_action]
    IN  IF ~retrieved.ok
        THEN done("", TRUE, <<>>, <<>>, <<"retrieve">>)
        ELSE IF retrieved.status # "requires_action"
        THEN done(retrieved.status, FALSE, <<>>, <<>>, <<"retrieve", "sleep">>)
        ELSE IF ~res.ok
        THEN done(retrieved.status, TRUE, res.invoked, <<>>,
                  <<"retrieve", "call_function">>)
        ELSE IF ~submitted.ok
        THEN done(retrieved.status, TRUE, res.invoked, <<>>,
                  <<"retrieve", "call_function", "submit">>)
        ELSE done(submitted.status, FALSE, res.invoked,
                  tool_outputs(retrieved.required_action[1], res),
                  <<"retrieve", "call_function", "submit", "sleep">>)

NoIteration ==
    [status |-> "", raised |-> FALSE, invoked |-> <<>>, submitted |-> <<>>,
     events |-> <<>>, retrieved |-> "", required_action |-> NoValue,
     before |-> [called |-> <<>>, outputs |-> <<>>]]

InitPoll ==
    /\ run_status = "queued"
    /\ wpc = "loop"
    /\ polls = 0
    /\ called = <<>>
    /\ outputs = <<>>
    /\ wlast = NoIteration

\* The loop body runs once more.
PollIteration ==
    /\ wpc = "loop"
    /\ LoopContinues(run_status)
    /\ polls < MaxPolls
    /\ \E retrieved \in RetrievedRuns, capability \in Capabilities,
          submitted \in SubmittedRuns :
          LET r == wait_iteration(retrieved, capability, submitted)
          IN  /\ Len(called) + Len(r.invoked) <= MaxCalled
              /\ run_status' = IF r.raised THEN run_status ELSE r.status
              /\ wpc' = IF r.raised THEN "raised" ELSE "loop"
              /\ polls' = polls + 1
              /\ called' = called \o r.invoked
              /\ outputs' = outputs \o r.submitted
              /\ wlast' = [status |-> r.status, raised |-> r.raised,
                           invoked |-> r.invoked, submitted |-> r.submitted,
                           events |-> r.events, retrieved |-> r.retrieved,
                           required_action |-> r.required_action,
                           before |-> [called |-> called, outputs |-> outputs]]
    /\ UNCHANGED <<chat_vars, gitauto_vars, runs_vars, pulls_vars>>

\* The loop test fails and wait_on_run returns the run.
PollReturn ==
    /\ wpc = "loop"
    /\ ~LoopContinues(run_status)
    /\ wpc' = "returned"
    /\ UNCHANGED <<run_status, polls, called, outputs, wlast>>
    /\ UNCHANGED <<chat_vars, gitauto_vars, runs_vars, pulls_vars>>

(***************************************************************************)
(* handle_gitauto: invocations for one issue, which may run in different   *)
(* processes and interleave between their calls to the collaborators.      *)
(***************************************************************************)
MaxDiffs == 2

Invocations == {"inv_a", "inv_b", "inv_c"}

\* The diffs run_assistant may return.
DiffLists == {[i \in 1..n |-> i] : n \in 0..MaxDiffs}

\* The run registry (the persistence layer), one entry per unique_issue_id.
\* save_progress_started is an atomic "start if not already in progress".
NoEntry == [state |-> "absent", progress |-> 0]

save_progress_started(entry) ==
    IF entry.state = "in_progress"
    THEN [ok |-> FALSE, entry |-> entry]
    ELSE [ok |-> TRUE, entry |-> [state |-> "in_progress", progress |-> 0]]

update_progress(entry, progress) ==
    [state |-> IF progress = 100 THEN "completed" ELSE entry.state,
     progress |-> progress]

\* What a github_manager call that is given comment_url and unique_issue_id
\* does when it fails, before it raises: it reports a terminal failure.
report_failure(entry) == [state |-> "failed", progress |-> entry.progress]

\* A variant that goes on although the start was refused.
StartRefused_Never(started) == FALSE

\* "if not supabase_manager.save_progress_started(...)"
StartRefused(started) == ~started

\* A variant that records 50% before the agent run.
StepOrder_EarlyProgress ==
    <<"receive", "start", "prepare", "progress50", "agent", "branch",
      "commit", "pull_request", "finish", "done">>

\* The statements of handle_gitauto after the label check, in order.
StepOrder ==
    <<"receive", "start", "prepare", "agent", "progress50", "branch",
      "commit", "pull_request", "finish", "done">>

StepAfter(step) ==
    StepOrder[(CHOOSE i \in 1..Len(StepOrder) : StepOrder[i] = step) + 1]

\* A variant that deletes the branch when a later step fails.
RemoteAfterFailure_RolledBack(branch) ==
    [created |-> FALSE, commits |-> <<>>, pull_request |-> FALSE]

\* handle_gitauto has no handler around its steps: a failure leaves the
\* branch as it is.
RemoteAfterFailure(branch) == branch

NoBranch == [created |-> FALSE, commits |-> <<>>, pull_request |-> FALSE]

InitGitauto ==
    /\ hpc = [p \in Invocations |-> "receive"]
    /\ hlocal = [p \in Invocations |-> [diffs |-> <<>>, next |-> 1, trace |-> <<>>]]
    /\ progress_entry = NoEntry
    /\ counts = [requests |-> 0, completed |-> 0]
    /\ remote = [p \in Invocations |-> NoBranch]

Did(p, effects) == [hlocal EXCEPT ![p].trace = @ \o effects]

\* A variant that counts the request before it checks the label.
CountsWhenIgnored_Counted(c) == [c EXCEPT !.requests = @ + 1]

\* The label check returns before increment_request_count.
CountsWhenIgnored(c) == c

\* The label check, then the request count, the token and the reaction.
H_Receive(p) ==
    /\ hpc[p] = "receive"
    /\ \E type \in {"label", "comment"}, label_is_product \in BOOLEAN :
          IF type = "label" /\ ~label_is_product
          THEN /\ hpc' = [hpc EXCEPT ![p] = "ignored"]
               /\ counts' = CountsWhenIgnored(counts)
               /\ UNCHANGED hlocal
          ELSE /\ hpc' = [hpc EXCEPT ![p] = StepAfter("receive")]
               /\ counts' = [counts EXCEPT !.requests = @ + 1]
               /\ hlocal' = Did(p, <<"request_count", "reaction">>)
    /\ UNCHANGED <<progress_entry, remote>>
    /\ UNCHANGED <<chat_vars, poll_vars, runs_vars, pulls_vars>>

\* save_progress_started, then the comment: "already in progress" and
\* return, or the 0% progress comment.
H_Start(p) ==
    /\ hpc[p] = "start"
    /\ LET started == save_progress_started(progress_entry)
       IN  /\ progress_entry' = started.entry
           /\ IF StartRefused(started.ok)
              THEN /\ hpc' = [hpc EXCEPT ![p] = "refused"]
                   /\ hlocal' = Did(p, <<"comment_in_progress">>)
              ELSE /\ hpc' = [hpc EXCEPT ![p] = StepAfter("start")]
                   /\ hlocal' = Did(p, <<"started", "comment_0">>)
    /\ UNCHANGED <<counts, remote>>
    /\ UNCHANGED <<chat_vars, poll_vars, runs_vars, pulls_vars>>

\* A step of handle_gitauto fails: the exception leaves handle_gitauto.  A
\* github_manager call that was given unique_issue_id has reported it.
Fails(p, reported) ==
    /\ hpc' = [hpc EXCEPT ![p] = "failed"]
    /\ progress_entry' = IF reported THEN report_failure(progress_entry) ELSE progress_entry
    /\ hlocal' = Did(p, IF reported THEN <<"failure_reported">> ELSE <<>>)
    /\ remote' = [remote EXCEPT ![p] = RemoteAfterFailure(@)]
    /\ UNCHANGED counts

\* get_remote_file_tree, get_issue_comments, write_pr_body
H_Prepare(p) ==
    /\ hpc[p] = "prepare"
    /\ \E ok \in BOOLEAN :
          IF ok
          THEN /\ hpc' = [hpc EXCEPT ![p] = StepAfter("prepare")]
               /\ hlocal' = Did(p, <<"file_tree">>)
               /\ UNCHANGED <<progress_entry, counts, remote>>
          ELSE Fails(p, TRUE)
    /\ UNCHANGED <<chat_vars, poll_vars, runs_vars, pulls_vars>>

\* run_assistant returns the diffs, or raises (wait_on_run raises).
H_RunAgent(p) ==
    /\ hpc[p] = "agent"
    /\ \/ \E diffs \in DiffLists :
            /\ hpc' = [hpc EXCEPT ![p] = StepAfter("agent")]
            /\ hlocal' = [Did(p, <<"agent">>) EXCEPT ![p].diffs = diffs]
            /\ UNCHANGED <<progress_entry, counts, remote>>
       \/ Fails(p, FALSE)
    /\ UNCHANGED <<chat_vars, poll_vars, runs_vars, pulls_vars>>

\* update_progress(50) and the "Half way there!" comment
H_Progress50(p) ==
    /\ hpc[p] = "progress50"
    /\ hpc' = [hpc EXCEPT ![p] = StepAfter("progress50")]
    /\ progress_entry' = update_progress(progress_entry, 50)
    /\ hlocal' = Did(p, <<"progress_50", "comment_50">>)
    /\ UNCHANGED <<counts, remote>>
    /\ UNCHANGED <<chat_vars, poll_vars, runs_vars, pulls_vars>>

\* get_latest_remote_commit_sha and create_remote_branch
H_CreateBranch(p) ==
    /\ hpc[p] = "branch"
    /\ \E ok \in BOOLEAN :
          IF ok
          THEN /\ hpc' = [hpc EXCEPT ![p] = StepAfter("branch")]
               /\ remote' = [remote EXCEPT ![p].created = TRUE]
               /\ hlocal' = Did(p, <<"branch">>)
               /\ UNCHANGED <<progress_entry, counts>>
          ELSE Fails(p, TRUE)
    /\ UNCHANGED <<chat_vars, poll_vars, runs_vars, pulls_vars>>

\* A variant that goes through the diffs from the last to the first.
DiffToCommit_Reversed(diffs, pass) == diffs[Len(diffs) + 1 - pass]

\* "for diff in diffs": the diff of a pass of the loop.
DiffToCommit(diffs, pass) == diffs[pass]

\* One pass of "for diff in diffs": commit_changes_to_remote_branch.
H_Commit(p) ==
    /\ hpc[p] = "commit"
    /\ hlocal[p].next <= Len(hlocal[p].diffs)
    /\ \E ok \in BOOLEAN :
          IF ok
          THEN /\ remote' = [remote EXCEPT ![p].commits =
                                Append(@, DiffToCommit(hlocal[p].diffs,
                                                       hlocal[p].next))]
               /\ hlocal' = [Did(p, <<"commit">>) EXCEPT ![p].next = @ + 1]
               /\ UNCHANGED <<hpc, progress_entry, counts>>
          ELSE Fails(p, TRUE)
    /\ UNCHANGED <<chat_vars, poll_vars, runs_vars, pulls_vars>>

\* After the loop: create_pull_request.
H_PullRequest(p) ==
    /\ hpc[p] = "commit"
    /\ hlocal[p].next > Len(hlocal[p].diffs)
    /\ \E ok \in BOOLEAN :
          IF ok
          THEN /\ hpc' = [hpc EXCEPT ![p] = StepAfter("pull_request")]
               /\ remote' = [remote EXCEPT ![p].pull_request = TRUE]
               /\ hlocal' = Did(p, <<"pull_request">>)
               /\ UNCHANGED <<progress_entry, counts>>
          ELSE Fails(p, TRUE)
    /\ UNCHANGED <<chat_vars, poll_vars, runs_vars, pulls_vars>>

\* The completion comment, increment_completed_count, update_progress(100).
H_Finish(p) ==
    /\ hpc[p] = "finish"
    /\ hpc' = [hpc EXCEPT ![p] = StepAfter("finish")]
    /\ counts' = [counts EXCEPT !.completed = @ + 1]
    /\ progress_entry' = update_progress(progress_entry, 100)
    /\ hlocal' = Did(p, <<"comment_done", "completed_count", "progress_100">>)
    /\ UNCHANGED remote
    /\ UNCHANGED <<chat_vars, poll_vars, runs_vars, pulls_vars>>

NextGitauto ==
    \E p \in Invocations :
        \/ H_Receive(p)
        \/ H_Start(p)
        \/ H_Prepare(p)
        \/ H_RunAgent(p)
        \/ H_Progress50(p)
        \/ H_CreateBranch(p)
        \/ H_Commit(p)
        \/ H_PullRequest(p)
        \/ H_Finish(p)

(***************************************************************************)
(* Two runs, each with a message list and a dedup list of its own, taking  *)
(* chat_with_agent turns in any interleaving.  Lists are objects: a caller *)
(* holds a reference, and chat_with_agent changes the object in place.     *)
(***************************************************************************)
MaxRunTurns == 3

RunIds == {"run_a", "run_b"}

\* previous_calls=None
None == 0

PlainArgs(path) == <<LBRACE, Member("file_path", path), RBRACE>>

\* What a turn is given: the mode, the provider's answer and the
\* capability's behaviour.
RunInputs ==
    LET ok == [ok |-> TRUE, result |-> "tool result"]
        request(name) ==
            [ok |-> TRUE,
             tool_calls |-> <<ToolCall("call_1", name, PlainArgs("a.py"))>>]
    IN  { [mode |-> "explore", completion |-> [ok |-> TRUE, tool_calls |-> <<>>],
           capability |-> ok],
          [mode |-> "get", completion |-> request("get_remote_file_content"),
           capability |-> ok],
          [mode |-> "get", completion |-> request("get_remote_file_content"),
           capability |-> [ok |-> FALSE, result |-> "error"]],
          [mode |-> "commit",
           completion |-> request("commit_changes_to_remote_branch"),
           capability |-> ok],
          [mode |-> "explore", completion |-> [ok |-> FALSE, tool_calls |-> <<>>],
           capability |-> ok] }

\* A variant in which the omitted argument defaults to one list object made
\* when the function is defined.
NewList_SharedDefault(lists) == 1

\* "previous_calls = []": a list object that did not exist before.
NewList(lists) == Len(lists) + 1

\* "if previous_calls is None: previous_calls = []"
PreviousCallsOrNew(ref, lists) == IF ref = None THEN NewList(lists) ELSE ref

InitRuns ==
    /\ histories = <<>>
    /\ dedup_lists = <<>>
    /\ runs = [r \in RunIds |->
                 [state |-> "new", messages |-> None, previous_calls |-> None,
                  inputs |-> <<>>]]
    /\ turn_order = <<>>

\* A caller starts a run with a message list of its own, and either a dedup
\* list of its own or none (previous_calls omitted).
StartRun(r) ==
    /\ runs[r].state = "new"
    /\ histories' = Append(histories, <<UserMessage(r)>>)
    /\ \E omitted \in BOOLEAN :
          /\ dedup_lists' = IF omitted THEN dedup_lists
                            ELSE Append(dedup_lists, <<>>)
          /\ runs' = [runs EXCEPT ![r] =
                        [state |-> "running",
                         messages |-> Len(histories) + 1,
                         previous_calls |-> IF omitted THEN None
                                            ELSE Len(dedup_lists) + 1,
                         inputs |-> <<>>]]
    /\ UNCHANGED turn_order
    /\ UNCHANGED <<chat_vars, poll_vars, gitauto_vars, pulls_vars>>

\* One chat_with_agent call of run r on the lists it refers to; the caller
\* keeps the returned previous_calls for its next turn.
RunTurn(r) ==
    /\ runs[r].state = "running"
    /\ Len(turn_order) < MaxRunTurns
    /\ \E input \in RunInputs :
          LET ref == PreviousCallsOrNew(runs[r].previous_calls, dedup_lists)
              lists == IF ref > Len(dedup_lists)
                       THEN Append(dedup_lists, <<>>) ELSE dedup_lists
              res == chat_with_agent(histories[runs[r].messages], lists[ref],
                                     input.mode, input.completion,
                                     input.capability)
          IN  /\ histories' = [histories EXCEPT ![runs[r].messages] = res.messages]
              /\ dedup_lists' = [lists EXCEPT ![ref] = res.previous_calls]
              /\ runs' = [runs EXCEPT
                            ![r].previous_calls = ref,
                            ![r].inputs = Append(@, input),
                            ![r].state = IF res.outcome = "raised"
                                         THEN "aborted" ELSE "running"]
    /\ turn_order' = Append(turn_order, r)
    /\ UNCHANGED <<chat_vars, poll_vars, gitauto_vars, pulls_vars>>

NextRuns == \E r \in RunIds : StartRun(r) \/ RunTurn(r)

(***************************************************************************)
(* get_pull_request_files: one call, against a server that answers each    *)
(* page request with a list of files or with an error.                     *)
(***************************************************************************)
MaxPages == 3

\* A file as the server lists it.  A file without a patch (a binary file)
\* has no "patch" key.
File(filename, status, patch) ==
    [filename |-> filename, status |-> status, patch |-> patch,
     sha |-> "sha of " \o filename]

FileA == File("a.py", "modified", Some("patch of a.py"))
FileB == File("b.py", "added", Some("patch of b.py"))
FileC == File("c.png", "added", NoValue)

\* The lists response.json() may give for a page.
ServerPages ==
    { <<>>, <<FileA>>, <<FileC>>, <<FileA, FileB>>, <<FileB, FileA>>,
      <<FileC, FileA>>, <<FileA, FileC, FileB>> }

\* What requests.get and raise_for_status give: a list of files, or an
\* exception.
Responses ==
    {[ok |-> FALSE, files |-> <<>>]} \cup
    {[ok |-> TRUE, files |-> fs] : fs \in ServerPages}

\* "patch" in file
HasPatch(file) == file.patch # NoValue

\* {"filename": filename, "status": status, "patch": patch}
ChangeEntry(file) ==
    [filename |-> file.filename, status |-> file.status, patch |-> file.patch[1]]

RECURSIVE AppendPatched(_, _)
\* "for file in files": skip a file without a patch, append an entry for
\* each other file.
AppendPatched(collected, files) ==
    IF files = <<>>
    THEN collected
    ELSE IF ~HasPatch(files[1])
    THEN AppendPatched(collected, Tail(files))
    ELSE AppendPatched(Append(collected, ChangeEntry(files[1])), Tail(files))

\* handle_exceptions(default_return_value=None, raise_on_error=False): an
\* exception in the call becomes the return value None.
ValueOnError(collected) == NoValue

\* A variant that stops at a page shorter than the longest one.
IsLastPage_Short(files) == Len(files) < 3

\* "if not files: break"
IsLastPage(files) == files = <<>>

InitPulls ==
    /\ page = 1
    /\ changes = <<>>
    /\ exchanges = <<>>
    /\ files_result = [returned |-> FALSE, value |-> NoValue]

\* One pass of "while True": request the page, then fail, stop, or collect
\* and go on to the next page.
GetPage ==
    /\ ~files_result.returned
    /\ page <= MaxPages
    /\ \E response \in Responses :
          /\ exchanges' = Append(exchanges, [page |-> page, response |-> response])
          /\ IF ~response.ok
             THEN /\ files_result' = [returned |-> TRUE,
                                      value |-> ValueOnError(changes)]
                  /\ UNCHANGED <<page, changes>>
             ELSE IF IsLastPage(response.files)
             THEN /\ files_result' = [returned |-> TRUE, value |-> Some(changes)]
                  /\ UNCHANGED <<page, changes>>
             ELSE /\ changes' = AppendPatched(changes, response.files)
                  /\ page' = page + 1
                  /\ UNCHANGED files_result
    /\ UNCHANGED <<chat_vars, poll_vars, gitauto_vars, runs_vars>>

NextPulls == GetPage

Init == InitChat /\ InitPoll /\ InitGitauto /\ InitRuns /\ InitPulls

Next == ChatTurn

Spec == Init /\ [][Next]_vars

NextPoll == PollIteration \/ PollReturn

SpecPoll == Init /\ [][NextPoll]_vars

\* wait_on_run is sequential code: a step that can be taken is taken.
SpecPollFair == Init /\ [][NextPoll]_vars /\ WF_vars(NextPoll)

\* Both paths to the agent: a chat run, and a polling loop that runs either
\* alone or after a chat run that ended on an unknown tool in its first turn.
NextAgent ==
    \/ polls = 0 /\ ChatTurn
    \/ (turn = 0 \/ (turn = 1 /\ last.error = "unknown tool")) /\ NextPoll

SpecAgent == Init /\ [][NextAgent]_vars

SpecGitauto == Init /\ [][NextGitauto]_vars

SpecRuns == Init /\ [][NextRuns]_vars

SpecPulls == Init /\ [][NextPulls]_vars

(***************************************************************************)
(* Properties of a run of chat_with_agent turns (checked under Spec).      *)
(***************************************************************************)
NoRepeats(seq) == \A i, j \in 1..Len(seq) : i # j => seq[i] # seq[j]

TurnTaken == last.outcome # "none"

\* The latest turn's answer carried a tool request.
ToolRequested == TurnTaken /\ last.tool_calls # <<>>

\* The arguments of the first request of the latest turn parse.
RequestParses == json_loads(last.tool_calls[1].arguments).ok

\* The {function, args} record of the first request of the latest turn.
RequestedCall ==
    [function |-> last.tool_calls[1].name,
     args |-> json_loads(last.tool_calls[1].arguments).value]

\* The capability invocations of the latest turn.
InvokedNow == SubSeq(executed, Len(last.before.executed) + 1, Len(executed))

\* The messages the latest turn appended.
AppendedNow == SubSeq(messages, Len(last.before.messages) + 1, Len(messages))

\* The request of the latest turn repeats a recorded call.
RepeatsRecorded ==
    /\ ToolRequested
    /\ RequestParses
    /\ RequestedCall \in Range(last.before.previous_calls)

Position(events, e) == CHOOSE i \in 1..Len(events) : events[i] = e

\* C1: previous_calls never holds two equal {function, args} records, and a
\* request that repeats a recorded call appends nothing to previous_calls.
C1_NoDuplicateRecords ==
    /\ NoRepeats(previous_calls)
    /\ RepeatsRecorded => previous_calls = last.before.previous_calls

\* A repeat of the first recorded call was just rejected.
C1_Witness ==
    /\ RepeatsRecorded
    /\ Len(previous_calls) >= 2
    /\ RequestedCall = previous_calls[1]

\* C2: within a run no capability is invoked twice with the same tool name
\* and the same arguments.
C2_NoRepeatedInvocation == NoRepeats(executed)

\* Two capabilities were invoked and a repeat request was then answered
\* without a third invocation.
C2_Witness ==
    /\ Len(executed) >= 2
    /\ RepeatsRecorded
    /\ InvokedNow = <<>>

\* C3 as claimed: a turn adds a record to previous_calls if and only if it
\* invoked the capability, a failing invocation included.
C3_RecordedIffInvoked ==
    TurnTaken =>
        previous_calls = last.before.previous_calls \o InvokedNow

\* C3: a turn adds a record to previous_calls if and only if it invoked the
\* capability and the capability returned; a duplicate-rejected request and
\* an invocation that raises add nothing.
C3_RecordedIffInvokedAndReturned ==
    TurnTaken =>
        previous_calls =
            IF last.outcome = "returned"
            THEN last.before.previous_calls \o InvokedNow
            ELSE last.before.previous_calls

\* After a recorded call, a capability was invoked and raised, and its
\* call was not recorded.
C3_Witness ==
    /\ last.outcome = "raised"
    /\ InvokedNow # <<>>
    /\ previous_calls # <<>>
    /\ previous_calls = last.before.previous_calls

\* C4: a turn that returns reports is_done = TRUE exactly when it invoked a
\* capability: TRUE for a first-time request, FALSE without a request and
\* for a duplicate.
C4_DoneIffExecuted ==
    /\ last.is_done => last.outcome = "returned"
    /\ last.outcome = "returned" =>
        /\ last.is_done <=> InvokedNow # <<>>
        /\ last.tool_calls = <<>> => ~last.is_done
        /\ RepeatsRecorded => ~last.is_done
        /\ (ToolRequested /\ ~RepeatsRecorded) => last.is_done

\* A duplicate request returned is_done = FALSE after an executed one.
C4_Witness ==
    /\ last.outcome = "returned"
    /\ RepeatsRecorded
    /\ ~last.is_done
    /\ turn >= 2

\* C5: a turn invokes at most one capability, appends at most one record
\* and at most one tool-result message, and what it invokes is the first
\* request of the answer.
C5_SingleToolPerTurn ==
    TurnTaken =>
        /\ Len(InvokedNow) <= 1
        /\ Len(previous_calls) - Len(last.before.previous_calls) \in {0, 1}
        /\ Cardinality({i \in 1..Len(AppendedNow) :
                            AppendedNow[i].role = "tool"}) <= 1
        /\ \A i \in 1..Len(InvokedNow) : InvokedNow[i] = RequestedCall

\* An answer with two different requests was handled by executing one.
C5_Witness ==
    /\ Len(last.tool_calls) = 2
    /\ last.is_done
    /\ RequestedCall.function # last.tool_calls[2].name
    /\ Len(InvokedNow) = 1

C6_Guidance ==
    ", which is non-sense. You must open the file path in your tool args and update your diff content accordingly."

\* C6: a request that repeats a recorded call invokes nothing, appends the
\* assistant message and then a tool message holding the guidance text,
\* leaves previous_calls unchanged and returns is_done = FALSE.
C6_DuplicateRejected ==
    RepeatsRecorded =>
        /\ last.outcome = "returned"
        /\ InvokedNow = <<>>
        /\ previous_calls = last.before.previous_calls
        /\ ~last.is_done
        /\ Len(AppendedNow) = 2
        /\ AppendedNow[1].role = "assistant"
        /\ AppendedNow[1].tool_calls = last.tool_calls
        /\ AppendedNow[2].role = "tool"
        /\ C6_Guidance \in Range(AppendedNow[2].content)

\* A duplicate was rejected with the guidance as the newest message.
C6_Witness ==
    /\ RepeatsRecorded
    /\ messages[Len(messages)].role = "tool"
    /\ C6_Guidance \in Range(messages[Len(messages)].content)

\* C7: a turn whose answer carries no tool request changes neither the
\* history nor previous_calls, invokes nothing, and returns no tool name, no
\* arguments and is_done = FALSE.
C7_EmptyTurn ==
    (last.outcome = "returned" /\ last.tool_calls = <<>>) =>
        /\ messages = last.before.messages
        /\ previous_calls = last.before.previous_calls
        /\ executed = last.before.executed
        /\ last.tool_name = NoValue
        /\ last.tool_args = NoValue
        /\ ~last.is_done

\* An empty turn was taken in a run that had executed a call.
C7_Witness ==
    /\ last.outcome = "returned"
    /\ last.tool_calls = <<>>
    /\ previous_calls # <<>>
    /\ Len(messages) >= 3

\* C8: a returning turn with a tool request appends the assistant's request
\* message immediately before the tool-result message, which carries the id
\* and the name of the request; an invocation precedes both appends.
C8_MessageOrdering ==
    (last.outcome = "returned" /\ ToolRequested) =>
        /\ Len(AppendedNow) = 2
        /\ AppendedNow[1].role = "assistant"
        /\ AppendedNow[1].tool_calls = last.tool_calls
        /\ AppendedNow[2].role = "tool"
        /\ AppendedNow[2].tool_call_id = last.tool_calls[1].id
        /\ AppendedNow[2].name = last.tool_calls[1].name
        /\ Position(last.events, "append_result")
              = Position(last.events, "append_request") + 1
        /\ "invoke" \in Range(last.events) =>
              Position(last.events, "invoke")
                  < Position(last.events, "append_request")

\* An executed request of a two-request answer was appended with its result.
C8_Witness ==
    /\ last.outcome = "returned"
    /\ "invoke" \in Range(last.events)
    /\ Len(last.tool_calls) = 2
    /\ messages[Len(messages)].tool_call_id = "call_1"
    /\ messages[Len(messages) - 1].role = "assistant"

\* C9: the history before a turn is a prefix of the history after it; a
\* returning turn grows it by 2 messages if the answer carried a tool
\* request and by 0 if not, and a turn that raises grows it by 0.
C9_AppendOnly ==
    TurnTaken =>
        /\ IsPrefix(last.before.messages, messages)
        /\ Len(messages) - Len(last.before.messages) =
              IF last.outcome = "returned" /\ ToolRequested THEN 2 ELSE 0

\* A second tool exchange was appended after the first.
C9_Witness ==
    /\ Len(messages) = 5
    /\ Len(last.before.messages) = 3
    /\ IsPrefix(last.before.messages, messages)

(***************************************************************************)
(* Properties of the polling loop (checked under SpecPoll).                *)
(***************************************************************************)
\* C10: the loop ends within the turn ceiling: it never runs more than
\* TurnCeiling iterations, whatever the provider answers.
C10_TerminatesWithinCeiling == polls <= TurnCeiling

\* C18: in the polling loop no capability is invoked twice with the same
\* tool name and the same arguments.
C18_NoRepeatedInvocationPolling == NoRepeats(called)

\* C17: wait_on_run returns only with a run whose status is final, and once
\* the status it holds is final the loop returns.
C17_ReturnsOnlyFinal ==
    /\ [](wpc = "returned" => run_status \in OPENAI_FINAL_STATUSES)
    /\ (wpc = "loop" /\ run_status \in OPENAI_FINAL_STATUSES) ~> (wpc = "returned")

\* The loop returned after polling more than once and submitting an output.
C17_Witness ==
    /\ wpc = "returned"
    /\ polls >= 2
    /\ outputs # <<>>

\* The latest iteration of the polling loop had a pending tool call.
PendingCall == wlast.required_action # NoValue

RequiredAction == wlast.retrieved = "requires_action"

\* The first pending tool call of the latest iteration.
FirstPending == wlast.required_action[1][1]

\* C22 as stated: a capability is invoked only in an iteration that
\* retrieved requires_action, and every such iteration invokes exactly one
\* capability, the first pending call, and submits exactly one output, with
\* that call's id.
C22_OneInvocationPerAction ==
    /\ wlast.invoked # <<>> => RequiredAction
    /\ RequiredAction =>
          /\ PendingCall
          /\ Len(wlast.invoked) = 1
          /\ wlast.invoked[1].function = FirstPending.name
          /\ Len(wlast.submitted) = 1
          /\ wlast.submitted[1].tool_call_id = FirstPending.id

\* C22: a capability is invoked only in an iteration that retrieved
\* requires_action with a pending call, and it is the first pending call,
\* with its parsed arguments and the token; an iteration invokes at most one
\* capability and submits at most one output; an iteration that retrieved
\* requires_action and did not raise invoked exactly one and submitted
\* exactly one; an output carries the id of the call that was executed in
\* the same iteration, and none is submitted when no call was executed.
C22_OneInvocationPerReturningAction ==
    /\ Len(wlast.invoked) <= 1
    /\ Len(wlast.submitted) <= 1
    /\ wlast.invoked # <<>> =>
          /\ RequiredAction
          /\ PendingCall
          /\ wlast.invoked[1] =
                CurrentCall(FirstPending.name,
                            WithToken(json_loads(FirstPending.arguments).value,
                                      "token"))
    /\ (RequiredAction /\ ~wlast.raised) =>
          /\ Len(wlast.invoked) = 1
          /\ Len(wlast.submitted) = 1
    /\ wlast.submitted # <<>> =>
          /\ Len(wlast.invoked) = 1
          /\ ~wlast.raised
          /\ wlast.submitted[1].tool_call_id = FirstPending.id
    /\ called = wlast.before.called \o wlast.invoked
    /\ outputs = wlast.before.outputs \o wlast.submitted

\* An iteration with two pending calls executed the first and submitted its
\* output, after an earlier iteration had done the same.
C22_Witness ==
    /\ RequiredAction
    /\ ~wlast.raised
    /\ Len(wlast.required_action[1]) = 2
    /\ Len(wlast.submitted) = 1
    /\ wlast.before.outputs # <<>>

(***************************************************************************)
(* Properties of both paths.                                               *)
(***************************************************************************)
\* C13: a turn invokes only a capability that belongs to the tool list of
\* the turn's mode.
C13_ModeScopedTools ==
    \A i \in 1..Len(InvokedNow) : InvokedNow[i].function \in ModeTools(last.mode)

\* C14: a request for a tool name that is not in the registry ends in an
\* error and invokes nothing: chat_with_agent raises to its caller, and
\* wait_on_run raises without submitting a tool output.
C14_UnknownTool ==
    /\ (ToolRequested /\ last.tool_calls[1].name \notin tools_to_call) =>
          /\ last.outcome = "raised"
          /\ run_state = "aborted"
          /\ InvokedNow = <<>>
    /\ (PendingCall /\ wlast.required_action[1][1].name \notin functions) =>
          /\ wlast.raised
          /\ wpc = "raised"
          /\ called = wlast.before.called
          /\ outputs = wlast.before.outputs

\* An unknown tool ended a chat run, and later ended a polling loop that had
\* already submitted an output.
C14_Witness ==
    /\ last.error = "unknown tool"
    /\ PendingCall
    /\ wlast.required_action[1][1].name \notin functions
    /\ wpc = "raised"
    /\ outputs # <<>>

\* C15: a turn that raises called the provider once and the capability at
\* most once, and leaves the history and previous_calls as they were.
C15_FailingTurn ==
    last.outcome = "raised" =>
        /\ run_state = "aborted"
        /\ messages = last.before.messages
        /\ previous_calls = last.before.previous_calls
        /\ Cardinality({i \in 1..Len(last.events) : last.events[i] = "complete"}) = 1
        /\ Len(InvokedNow) <= 1

\* A capability raised in a run that already had a tool exchange on record.
C15_Witness ==
    /\ last.outcome = "raised"
    /\ last.error = "capability"
    /\ Len(messages) >= 3
    /\ previous_calls # <<>>
    /\ Len(executed) = Len(previous_calls) + 1

(***************************************************************************)
(* handle_gitauto                                                          *)
(***************************************************************************)
Trace(p) == hlocal[p].trace

Happened(p, effect) == effect \in Range(Trace(p))

\* Every occurrence of "later" in the trace has an "earlier" before it.
Precedes(trace, earlier, later) ==
    \A j \in 1..Len(trace) :
        trace[j] = later => \E i \in 1..(j - 1) : trace[i] = earlier

\* Between a successful save_progress_started and the end of the invocation.
Working == {"prepare", "agent", "progress50", "branch", "commit", "finish"}

WorkEffects ==
    {"started", "file_tree", "agent", "progress_50", "branch", "commit",
     "pull_request", "progress_100"}

Exited == {"ignored", "refused", "failed", "done"}

\* C11: at most one invocation for the issue is between a successful
\* save_progress_started and its end, and an invocation that found the issue
\* already in progress made none of the steps that follow.
C11_MutualExclusion ==
    /\ Cardinality({p \in Invocations : hpc[p] \in Working}) <= 1
    /\ \A p \in Invocations :
          Happened(p, "comment_in_progress") =>
              /\ hpc[p] = "refused"
              /\ Range(Trace(p)) \cap WorkEffects = {}
              /\ remote[p] = NoBranch

\* One invocation was refused while the other had already committed a diff
\* and was still working.
C11_Witness ==
    \E p, q \in Invocations :
        /\ hpc[p] = "commit"
        /\ remote[p].commits # <<>>
        /\ hpc[q] = "refused"

\* C12: an invocation that failed after it was marked started reported a
\* terminal failure, and once every invocation has exited the issue's entry
\* is not in progress.
C12_FailureReported ==
    /\ \A p \in Invocations :
          (hpc[p] = "failed" /\ Happened(p, "started")) =>
              Happened(p, "failure_reported")
    /\ (\A p \in Invocations : hpc[p] \in Exited) =>
          progress_entry.state # "in_progress"

Milestones == {"started", "progress_50", "progress_100"}

IsMilestone(effect) == effect \in Milestones

CommitsMade(p) ==
    Cardinality({i \in 1..Len(Trace(p)) : Trace(p)[i] = "commit"})

\* C19: in each invocation the milestones come in the order started, 50%,
\* 100%, each at most once; started comes before the agent run, 50% after
\* the agent run returned and before the branch, and the completed count and
\* 100% only after every diff was committed and the pull request was made.
C19_MilestoneOrder ==
    \A p \in Invocations :
        /\ IsPrefix(SelectSeq(Trace(p), IsMilestone),
                    <<"started", "progress_50", "progress_100">>)
        /\ Precedes(Trace(p), "started", "agent")
        /\ Precedes(Trace(p), "agent", "progress_50")
        /\ Precedes(Trace(p), "progress_50", "branch")
        /\ Precedes(Trace(p), "pull_request", "completed_count")
        /\ Precedes(Trace(p), "completed_count", "progress_100")
        /\ Happened(p, "completed_count") =>
              /\ Happened(p, "progress_100")
              /\ CommitsMade(p) = Len(hlocal[p].diffs)
              /\ remote[p].commits = hlocal[p].diffs
              /\ remote[p].pull_request
        /\ Happened(p, "progress_50") /\ ~Happened(p, "branch") =>
              remote[p] = NoBranch

\* An invocation went through every milestone with every diff committed.
C19_Witness ==
    \E p \in Invocations :
        /\ hpc[p] = "done"
        /\ Len(hlocal[p].diffs) >= 2
        /\ Happened(p, "progress_100")

\* C20: no step of handle_gitauto removes a branch, a commit or a pull
\* request: each invocation's branch keeps its commits, in order, when more
\* are added and when a later commit or the pull request fails.
C20_NoRollback ==
    [][\A p \in Invocations :
          /\ IsPrefix(remote[p].commits, remote'[p].commits)
          /\ remote[p].created => remote'[p].created
          /\ remote[p].pull_request => remote'[p].pull_request]_vars

\* An invocation failed after it had committed a diff, and the commit is
\* still there.
C20_Witness ==
    \E p \in Invocations :
        /\ hpc[p] = "failed"
        /\ Happened(p, "commit")
        /\ Len(remote[p].commits) = CommitsMade(p)

Occurrences(p, effect) ==
    Cardinality({i \in 1..Len(Trace(p)) : Trace(p)[i] = effect})

\* C23: in each invocation the branch is created once, after the agent run
\* returned and before any commit; the commits on the branch are the
\* agent's diffs in the order it returned them, one commit per diff; the
\* pull request is created once, only after every diff was committed, and no
\* commit follows it; before the agent run returned nothing was created.
C23_RemoteEffectsOrdered ==
    \A p \in Invocations :
        /\ Precedes(Trace(p), "agent", "branch")
        /\ Precedes(Trace(p), "branch", "commit")
        /\ Precedes(Trace(p), "branch", "pull_request")
        /\ \A i, j \in 1..Len(Trace(p)) :
              (Trace(p)[i] = "pull_request" /\ Trace(p)[j] = "commit") => j < i
        /\ Occurrences(p, "branch") <= 1
        /\ Occurrences(p, "pull_request") <= 1
        /\ remote[p].created <=> Happened(p, "branch")
        /\ remote[p].pull_request <=> Happened(p, "pull_request")
        /\ Len(remote[p].commits) = Occurrences(p, "commit")
        /\ IsPrefix(remote[p].commits, hlocal[p].diffs)
        /\ remote[p].pull_request => remote[p].commits = hlocal[p].diffs
        /\ ~Happened(p, "agent") => remote[p] = NoBranch

\* An invocation has created its pull request after committing two diffs
\* and has not finished yet.
C23_Witness ==
    \E p \in Invocations :
        /\ hpc[p] = "finish"
        /\ remote[p].pull_request
        /\ Len(remote[p].commits) = 2

\* C24: an invocation refused by save_progress_started posted the "already
\* in progress" comment and nothing after it, and its refusal changed
\* neither the issue's entry, nor the counts, nor the repository; an
\* invocation for a label that is not the product id made no side effect at
\* all, so the request count is the number of invocations that got past the
\* label check.
C24_RefusedAndIgnoredAreInert ==
    /\ [](/\ \A p \in Invocations :
                /\ hpc[p] = "ignored" =>
                      Trace(p) = <<>> /\ remote[p] = NoBranch
                /\ hpc[p] = "refused" =>
                      /\ Trace(p) = <<"request_count", "reaction",
                                      "comment_in_progress">>
                      /\ remote[p] = NoBranch
          /\ counts.requests =
                Cardinality({p \in Invocations : Happened(p, "request_count")})
          /\ counts.completed =
                Cardinality({p \in Invocations : Happened(p, "completed_count")}))
    /\ [][\A p \in Invocations :
             /\ (hpc[p] = "start" /\ hpc'[p] = "refused") =>
                   /\ progress_entry' = progress_entry
                   /\ counts' = counts
                   /\ remote' = remote
             /\ (hpc[p] = "receive" /\ hpc'[p] = "ignored") =>
                   /\ progress_entry' = progress_entry
                   /\ counts' = counts
                   /\ remote' = remote
                   /\ hlocal' = hlocal
             /\ hpc[p] \in {"ignored", "refused"} =>
                   hpc'[p] = hpc[p] /\ hlocal'[p] = hlocal[p]]_vars

\* While one invocation is running the agent, another was refused and a
\* third, for another label, was ignored.
C24_Witness ==
    \E p, q, r \in Invocations :
        /\ hpc[p] = "agent"
        /\ hpc[q] = "refused"
        /\ hpc[r] = "ignored"
        /\ counts.requests = 2
        /\ progress_entry.state = "in_progress"

(***************************************************************************)
(* Two runs                                                                *)
(***************************************************************************)
RECURSIVE Replay(_, _, _)
\* The lists a run has after its turns when nothing else runs.
Replay(msgs, calls, inputs) ==
    IF inputs = <<>>
    THEN [messages |-> msgs, previous_calls |-> calls]
    ELSE LET res == chat_with_agent(msgs, calls, inputs[1].mode,
                                    inputs[1].completion, inputs[1].capability)
         IN  Replay(res.messages, res.previous_calls, Tail(inputs))

RanAlone(r) == Replay(<<UserMessage(r)>>, <<>>, runs[r].inputs)

Started(r) == runs[r].state # "new"

\* C16: in every state of every interleaving, each run's message list and
\* dedup list are what the run's own turns alone produce (so no turn of the
\* other run has changed them), and the two runs refer to different lists.
C16_RunIsolation ==
    /\ \A r \in RunIds :
          Started(r) =>
              /\ histories[runs[r].messages] = RanAlone(r).messages
              /\ IF runs[r].previous_calls = None
                 THEN RanAlone(r).previous_calls = <<>>
                 ELSE dedup_lists[runs[r].previous_calls] =
                          RanAlone(r).previous_calls
    /\ \A r, q \in RunIds :
          (r # q /\ Started(r) /\ Started(q)) =>
              /\ runs[r].messages # runs[q].messages
              /\ runs[r].previous_calls = None
                     \/ runs[r].previous_calls # runs[q].previous_calls

\* Both runs were started with previous_calls omitted, their turns
\* interleaved, and each has recorded a call.
C16_Witness ==
    /\ \A r \in RunIds :
          /\ Started(r)
          /\ runs[r].previous_calls # None
          /\ dedup_lists[runs[r].previous_calls] # <<>>
    /\ Len(dedup_lists) = 2
    /\ Len(turn_order) = 3
    /\ turn_order[1] = turn_order[3]
    /\ turn_order[1] # turn_order[2]

(***************************************************************************)
(* get_pull_request_files                                                  *)
(***************************************************************************)
CarriesPatch(file) == Len(file.patch) = 1

\* One entry for each file with a patch on the pages, in page order.
RECURSIVE EntriesOf(_)
EntriesOf(pages) ==
    IF pages = <<>>
    THEN <<>>
    ELSE LET kept == SelectSeq(pages[1], CarriesPatch)
         IN  [i \in 1..Len(kept) |->
                 [filename |-> kept[i].filename, status |-> kept[i].status,
                  patch |-> kept[i].patch[1]]] \o EntriesOf(Tail(pages))

\* The files of the first n answers.
PagesServed(n) == [i \in 1..n |-> exchanges[i].response.files]

NonEmptyPage(i) ==
    exchanges[i].response.ok /\ exchanges[i].response.files # <<>>

\* C21: the pages requested are 1, 2, 3, ... in order; every answer before
\* the latest was a non-empty page; the call has returned only if the latest
\* answer was an empty page or an error; after an error it returned None;
\* after an empty page it returned, in page order, one entry for each file
\* with a patch on the pages before and none for a file without a patch.
C21_Pagination ==
    LET n == Len(exchanges)
    IN  /\ \A i \in 1..n : exchanges[i].page = i
        /\ \A i \in 1..(n - 1) : NonEmptyPage(i)
        /\ ~files_result.returned =>
              /\ \A i \in 1..n : NonEmptyPage(i)
              /\ page = n + 1
        /\ files_result.returned =>
              /\ n >= 1
              /\ ~NonEmptyPage(n)
              /\ IF exchanges[n].response.ok
                 THEN files_result.value = Some(EntriesOf(PagesServed(n - 1)))
                 ELSE files_result.value = NoValue

\* The call returned entries from two pages, one of which listed a file
\* without a patch.
C21_Witness ==
    /\ files_result.returned
    /\ Len(exchanges) = 3
    /\ files_result.value # NoValue
    /\ Len(files_result.value[1]) >= 3
    /\ \E i \in 1..2 : FileC \in Range(exchanges[i].response.files)

====
